---- MODULE Spec2Model ----
(***************************************************************************)
(* Model of the Vilnius summer-camp scraper (src/src/scraper.py with its   *)
(* settings in src/src/config.py).                                         *)
(*                                                                         *)
(* Three specifications share the variables:                               *)
(*   Spec         main(): scrape_camps() followed by save_to_csv()         *)
(*   SpecSave     save_to_csv() applied to bounded record lists            *)
(*   SpecExtract  extract_field() applied to bounded cards                 *)
(*                                                                         *)
(* A text is a sequence of tokens: single characters, or whole words where *)
(* the program never looks inside them.  Characters outside ASCII are      *)
(* transliterated: the placeholder (an en dash) is "-", the euro sign is   *)
(* "E".                                                                    *)
(***************************************************************************)
EXTENDS Integers, Sequences, FiniteSets, TLC

VARIABLES
    pc,          \* position of the running function
    arg,         \* scrape_camps: the max_camps argument (NoArg = None)
    site,        \* the web site: sizes of its pages, number of non-empty pages
    max_camps,   \* scrape_camps: local max_camps after line 71
    page,        \* scrape_camps: local page
    all_camps,   \* scrape_camps: local all_camps
    response,    \* scrape_camps: <<markup>> of the page fetched, <<>> before
    cards,       \* scrape_camps: local cards (cards of the page being processed)
    idx,         \* scrape_camps: position of the for loop over cards
    requests,    \* pages requested with requests.get, in order
    sleeps,      \* number of time.sleep(DELAY_BETWEEN_REQUESTS) calls made
    stop,        \* how the pagination loop ended
    ret,         \* value returned by scrape_camps
    camps,       \* save_to_csv: argument camps
    files,       \* output directory: file kind -> content (NoFile = absent)
    log,         \* (level, message kind) of the records logged by save_to_csv
    raised,      \* whether an exception left the running function
    card,        \* extract_field: argument card
    selector,    \* extract_field: argument selector
    value        \* extract_field: returned value

vars == <<pc, arg, site, max_camps, page, all_camps, response, cards, idx, requests, sleeps,
          stop, ret, camps, files, log, raised, card, selector, value>>

scrapeVars == <<arg, site, max_camps, page, all_camps, response, cards, idx, requests, sleeps,
                stop, ret>>
saveVars == <<camps, files, log>>
extractVars == <<card, selector, value>>

---------------------------------------------------------------------------
(* Bounds of the model *)

MaxArg == 3          \* max_camps arguments 0..MaxArg, besides None
MaxCards == 3        \* cards on one page
MaxPattern == 2      \* length of the repeating pattern of page sizes
MaxPages == 7        \* non-empty pages of the site
MaxRecs == 2         \* records handed to save_to_csv in SpecSave
MaxNodes == 3        \* element nodes of a card in SpecExtract

---------------------------------------------------------------------------
(* config.py *)

MAX_CAMPS == 20
BASE_URL == <<"https://vilnius.lt/savivaldybe/vasaros-stovyklos">>

Placeholder == <<"-">>

---------------------------------------------------------------------------
(* Texts *)

IsSpace(c) == c \in {" ", "\t", "\n"}

RECURSIVE LStrip(_)
LStrip(s) == IF s # <<>> /\ IsSpace(Head(s)) THEN LStrip(Tail(s)) ELSE s

RECURSIVE RStrip(_)
RStrip(s) ==
    IF s # <<>> /\ IsSpace(s[Len(s)]) THEN RStrip(SubSeq(s, 1, Len(s) - 1)) ELSE s

\* str.strip()
Strip(s) == RStrip(LStrip(s))

\* needle in s
Contains(s, needle) ==
    \E i \in 1..(Len(s) - Len(needle) + 1) : SubSeq(s, i, i + Len(needle) - 1) = needle

---------------------------------------------------------------------------
(* Cards.  A card is [h3, href, body]: h3 the texts './/h3/text()' selects, *)
(* href the values './/a/@href' selects, body the labelled part of the      *)
(* card as a sequence of parent elements, each the sequence of its child    *)
(* nodes [tag, text] in document order.                                     *)

\* config.SELECTORS: './/h6[contains(text(), "<label>")]'
SELECTORS ==
    [organizer |-> [tag |-> "h6", label |-> <<"Organizatorius">>],
     age_group |-> [tag |-> "h6", label |-> <<"Amziaus grupe">>],
     price     |-> [tag |-> "h6", label |-> <<"Kaina">>]]

NodeMatches(node, sel) == node.tag = sel.tag /\ Contains(node.text, sel.label)

\* card.xpath(selector): the positions <<parent, child>> of the matching nodes,
\* in document order
RECURSIVE XPathFrom(_, _, _, _)
XPathFrom(body, sel, c, j) ==
    IF c > Len(body) THEN <<>>
    ELSE IF j > Len(body[c]) THEN XPathFrom(body, sel, c + 1, 1)
    ELSE (IF NodeMatches(body[c][j], sel) THEN << <<c, j>> >> ELSE <<>>)
         \o XPathFrom(body, sel, c, j + 1)

XPath(crd, sel) == XPathFrom(crd.body, sel, 1, 1)

\* element.getnext(): the next sibling under the same parent, <<>> for None
GetNext(crd, pos) ==
    IF pos[2] < Len(crd.body[pos[1]]) THEN <<crd.body[pos[1]][pos[2] + 1]>> ELSE <<>>

\* extract_field without the test p.tag == 'p' of line 56
extract_field_NoTagTest(crd, sel, field_name) ==
    LET h6 == XPath(crd, sel) IN
    IF h6 # <<>>
    THEN LET p == GetNext(crd, h6[1]) IN
         IF p # <<>> THEN Strip(p[1].text) ELSE Placeholder
    ELSE Placeholder

extract_field(crd, sel, field_name) ==
    LET h6 == XPath(crd, sel) IN
    IF h6 # <<>>
    THEN LET p == GetNext(crd, h6[1]) IN
         IF p # <<>> /\ p[1].tag = "p" THEN Strip(p[1].text) ELSE Placeholder
    ELSE Placeholder

---------------------------------------------------------------------------
(* The web site.  Page p holds PageSize(p) cards: the sizes repeat the      *)
(* pattern site.sizes over the first site.npages pages, and every later     *)
(* page is empty.                                                           *)

Digits == <<"0", "1", "2", "3", "4", "5", "6", "7", "8", "9">>

\* str(n) for n >= 0
RECURSIVE Str(_)
Str(n) == IF n < 10 THEN <<Digits[n + 1]>> ELSE Str(n \div 10) \o <<Digits[(n % 10) + 1]>>

Sites ==
    {[sizes |-> sz, npages |-> n] :
        sz \in UNION {[1..k -> 1..MaxCards] : k \in 1..MaxPattern}, n \in 0..MaxPages}

PageSize(st, p) ==
    IF p > st.npages THEN 0 ELSE st.sizes[((p - 1) % Len(st.sizes)) + 1]

\* The i-th card of page p.  Three shapes of card alternate: fully populated;
\* free of charge, without an age label and with the price in a second parent
\* element; without heading and link, the price label followed by a <div>.
CardOf(p, i) ==
    LET h3   == << <<"\n", " ", "Camp">> \o Str(p) \o <<".">> \o Str(i) \o <<" ">> >>
        href == << <<"/camp/">> \o Str(p) \o <<"/">> \o Str(i) >>
        org  == <<[tag |-> "h6", text |-> <<"Organizatorius">>],
                  [tag |-> "p", text |-> <<" ", "Org">> \o Str(i)]>>
    IN  CASE (p + i) % 3 = 0 ->
                [h3 |-> h3, href |-> href,
                 body |-> <<org \o <<[tag |-> "h6", text |-> <<"Amziaus grupe">>],
                                     [tag |-> "p", text |-> <<"7", "-", "1", "2">>],
                                     [tag |-> "h6", text |-> <<"Kaina">>],
                                     [tag |-> "p", text |-> <<"5", "0", " ", "E", "\n">>]>> >>]
          [] (p + i) % 3 = 1 ->
                [h3 |-> h3, href |-> href,
                 body |-> <<org, <<[tag |-> "h6", text |-> <<"Kaina">>],
                                   [tag |-> "p", text |-> <<"Nemokama">>]>> >>]
          [] OTHER ->
                [h3 |-> <<>>, href |-> <<>>,
                 body |-> <<org \o <<[tag |-> "h6", text |-> <<"Kaina">>],
                                     [tag |-> "div", text |-> <<"9", "9">>],
                                     [tag |-> "p", text |-> <<"1", "0">>]>> >>]

\* tree.xpath(config.SELECTORS["camp_cards"]) of page p
PageCards(st, p) == [i \in 1..PageSize(st, p) |-> CardOf(p, i)]

---------------------------------------------------------------------------
(* scrape_camps *)

\* the max_camps argument: <<>> is None, <<n>> the integer n (a maximum is a
\* count: negative arguments are left out)
NoArg == <<>>
Args == {NoArg} \cup {<<n>> : n \in 0..MaxArg}

\* line 71: max_camps or config.MAX_CAMPS (None and 0 are both falsy)
OrDefault(a) == IF a = NoArg \/ a[1] = 0 THEN MAX_CAMPS ELSE a[1]

\* lines 103-115: the record of one card
camp_data(crd) ==
    [title     |-> IF crd.h3 # <<>> THEN Strip(crd.h3[1]) ELSE Placeholder,
     organizer |-> extract_field(crd, SELECTORS.organizer, "Organizatorius"),
     age_group |-> extract_field(crd, SELECTORS.age_group, "Amziaus grupe"),
     price     |-> extract_field(crd, SELECTORS.price, "Kaina"),
     link      |-> IF crd.href # <<>> THEN BASE_URL \o crd.href[1] ELSE Placeholder]

\* the except clauses of lines 123-128: requests' RequestException, then Exception
\* the handlers without the clause of lines 126-128
Catches_RequestOnly(kind) == kind = "RequestException"

Catches(kind) == kind \in {"RequestException", "Exception"}

\* An exception of `kind` raised inside the try block at `where`: caught, it is
\* logged and the loop is left by break; uncaught, it leaves scrape_camps and
\* main (lines 315-317), which logs it and raises it again.
Raise(kind, where) ==
    IF Catches(kind)
    THEN /\ stop' = where
         /\ pc' = "return"
         /\ UNCHANGED raised
    ELSE /\ stop' = where
         /\ pc' = "crashed"
         /\ raised' = TRUE

\* lines 71-75
Start ==
    /\ pc = "scrape_camps"
    /\ max_camps' = OrDefault(arg)
    /\ page' = 1
    /\ all_camps' = <<>>
    /\ pc' = "while"
    /\ UNCHANGED <<arg, site, response, cards, idx, requests, sleeps, stop, ret, raised>>
    /\ UNCHANGED <<saveVars, extractVars>>

\* line 77: the loop condition
LoopTest ==
    /\ pc = "while"
    /\ IF Len(all_camps) < max_camps
       THEN pc' = "fetch" /\ UNCHANGED stop
       ELSE pc' = "return" /\ stop' = "max"
    /\ UNCHANGED <<arg, site, max_camps, page, all_camps, response, cards, idx,
                   requests, sleeps, ret, raised>>
    /\ UNCHANGED <<saveVars, extractVars>>

\* lines 78-88: the request succeeds
FetchOk ==
    /\ pc = "fetch"
    /\ requests' = Append(requests, page)
    /\ response' = <<PageCards(site, page)>>
    /\ pc' = "parse"
    /\ UNCHANGED <<arg, site, max_camps, page, all_camps, cards, idx, sleeps, stop,
                   ret, raised>>
    /\ UNCHANGED <<saveVars, extractVars>>

\* lines 83-88, 123-125: requests.get or raise_for_status raises
FetchFails ==
    /\ pc = "fetch"
    /\ requests' = Append(requests, page)
    /\ Raise("RequestException", "fetch_error")
    /\ UNCHANGED <<arg, site, max_camps, page, all_camps, response, cards, idx,
                   sleeps, ret>>
    /\ UNCHANGED <<saveVars, extractVars>>

\* lines 90-95 without the break of line 95
ParseOk_NoBreak ==
    /\ pc = "parse"
    /\ cards' = response[1]
    /\ idx' = 1
    /\ pc' = "cards"
    /\ UNCHANGED stop
    /\ UNCHANGED <<arg, site, max_camps, page, all_camps, response, requests, sleeps,
                   ret, raised>>
    /\ UNCHANGED <<saveVars, extractVars>>

\* lines 90-95: the page parses; no card ends the loop
ParseOk ==
    /\ pc = "parse"
    /\ cards' = response[1]
    /\ idx' = 1
    /\ IF response[1] = <<>>
       THEN pc' = "return" /\ stop' = "empty"
       ELSE pc' = "cards" /\ UNCHANGED stop
    /\ UNCHANGED <<arg, site, max_camps, page, all_camps, response, requests, sleeps,
                   ret, raised>>
    /\ UNCHANGED <<saveVars, extractVars>>

\* lines 90-91, 126-128: html.fromstring or tree.xpath raises
ParseFails ==
    /\ pc = "parse"
    /\ Raise("Exception", "parse_error")
    /\ UNCHANGED <<arg, site, max_camps, page, all_camps, response, cards, idx,
                   requests, sleeps, ret>>
    /\ UNCHANGED <<saveVars, extractVars>>

\* line 98: the for loop is exhausted
ForDone ==
    /\ pc = "cards"
    /\ idx > Len(cards)
    /\ pc' = "next_page"
    /\ UNCHANGED <<arg, site, max_camps, page, all_camps, response, cards, idx,
                   requests, sleeps, stop, ret, raised>>
    /\ UNCHANGED <<saveVars, extractVars>>

\* lines 99-100: the budget is used up, the for loop is left
BudgetBreak ==
    /\ pc = "cards"
    /\ idx <= Len(cards)
    /\ Len(all_camps) >= max_camps
    /\ pc' = "next_page"
    /\ UNCHANGED <<arg, site, max_camps, page, all_camps, response, cards, idx,
                   requests, sleeps, stop, ret, raised>>
    /\ UNCHANGED <<saveVars, extractVars>>

\* lines 102-118 without the budget test of lines 99-100
CardOk_NoBudgetTest ==
    /\ pc = "cards"
    /\ idx <= Len(cards)
    /\ all_camps' = Append(all_camps, camp_data(cards[idx]))
    /\ idx' = idx + 1
    /\ UNCHANGED <<pc, arg, site, max_camps, page, response, cards, requests, sleeps,
                   stop, ret, raised>>
    /\ UNCHANGED <<saveVars, extractVars>>

\* lines 102-118 with the record put in front (insert(0, ...) for append)
CardOk_Prepend ==
    /\ pc = "cards"
    /\ idx <= Len(cards)
    /\ Len(all_camps) < max_camps
    /\ all_camps' = <<camp_data(cards[idx])>> \o all_camps
    /\ idx' = idx + 1
    /\ UNCHANGED <<pc, arg, site, max_camps, page, response, cards, requests, sleeps,
                   stop, ret, raised>>
    /\ UNCHANGED <<saveVars, extractVars>>

\* lines 102-118: one card is processed
CardOk ==
    /\ pc = "cards"
    /\ idx <= Len(cards)
    /\ Len(all_camps) < max_camps
    /\ all_camps' = Append(all_camps, camp_data(cards[idx]))
    /\ idx' = idx + 1
    /\ UNCHANGED <<pc, arg, site, max_camps, page, response, cards, requests, sleeps,
                   stop, ret, raised>>
    /\ UNCHANGED <<saveVars, extractVars>>

\* a card that raises handled by a try/except around the card alone
CardFails_Skip ==
    /\ pc = "cards"
    /\ idx <= Len(cards)
    /\ Len(all_camps) < max_camps
    /\ idx' = idx + 1
    /\ stop' = "card_error"
    /\ UNCHANGED <<pc, arg, site, max_camps, page, all_camps, response, cards,
                   requests, sleeps, ret, raised>>
    /\ UNCHANGED <<saveVars, extractVars>>

\* lines 102-118, 126-128: processing a card raises; the only handler is the
\* page's
CardFails ==
    /\ pc = "cards"
    /\ idx <= Len(cards)
    /\ Len(all_camps) < max_camps
    /\ Raise("Exception", "card_error")
    /\ UNCHANGED <<arg, site, max_camps, page, all_camps, response, cards, idx,
                   requests, sleeps, ret>>
    /\ UNCHANGED <<saveVars, extractVars>>

\* lines 120-121
NextPage ==
    /\ pc = "next_page"
    /\ page' = page + 1
    /\ sleeps' = sleeps + 1
    /\ pc' = "while"
    /\ UNCHANGED <<arg, site, max_camps, all_camps, response, cards, idx, requests,
                   stop, ret, raised>>
    /\ UNCHANGED <<saveVars, extractVars>>

\* lines 130-131 and 313-314: scrape_camps returns all_camps, main hands it to
\* save_to_csv
Return ==
    /\ pc = "return"
    /\ ret' = all_camps
    /\ camps' = all_camps
    /\ pc' = "save_to_csv"
    /\ UNCHANGED <<arg, site, max_camps, page, all_camps, response, cards, idx,
                   requests, sleeps, stop, raised>>
    /\ UNCHANGED <<files, log, extractVars>>

---------------------------------------------------------------------------
(* save_to_csv.  A float is [nan, num, den]: NaN, or the rational num/den. *)

NaN == [nan |-> TRUE, num |-> 0, den |-> 1]
Float(n, d) == [nan |-> FALSE, num |-> n, den |-> d]

IsDigit(c) == \E d \in 1..10 : Digits[d] = c
DigitVal(c) == (CHOOSE d \in 1..10 : Digits[d] = c) - 1

\* the number a run of digits denotes
RECURSIVE ToInt(_)
ToInt(ds) ==
    IF ds = <<>> THEN 0 ELSE 10 * ToInt(SubSeq(ds, 1, Len(ds) - 1)) + DigitVal(ds[Len(ds)])

\* the digit run starting at position i of s
RECURSIVE RunAt(_, _)
RunAt(s, i) == IF i <= Len(s) /\ IsDigit(s[i]) THEN <<s[i]>> \o RunAt(s, i + 1) ELSE <<>>

\* re.findall(r'(\d+)', s) from position i on, as numbers
RECURSIVE DigitRunsFrom(_, _)
DigitRunsFrom(s, i) ==
    IF i > Len(s) THEN <<>>
    ELSE IF IsDigit(s[i])
         THEN <<ToInt(RunAt(s, i))>> \o DigitRunsFrom(s, i + Len(RunAt(s, i)))
         ELSE DigitRunsFrom(s, i + 1)

\* line 280: .str.extract(r'(\d+)').astype(float), the first digit run or NaN
price_numeric(rec) ==
    LET runs == DigitRunsFrom(rec.price, 1) IN
    IF runs = <<>> THEN NaN ELSE Float(runs[1], 1)

\* the values of a sequence of floats that are not NaN
RECURSIVE DropNaN(_)
DropNaN(fs) ==
    IF fs = <<>> THEN <<>>
    ELSE (IF Head(fs).nan THEN <<>> ELSE <<Head(fs).num>>) \o DropNaN(Tail(fs))

RECURSIVE Sum(_)
Sum(ns) == IF ns = <<>> THEN 0 ELSE Head(ns) + Sum(Tail(ns))

Range(ns) == {ns[i] : i \in 1..Len(ns)}
Min(S) == CHOOSE x \in S : \A y \in S : x <= y
Max(S) == CHOOSE x \in S : \A y \in S : x >= y

\* pandas Series.mean(), .min(), .max(): NaN values are skipped, and the result
\* over no value is NaN
SeriesMean(fs) ==
    LET ns == DropNaN(fs) IN IF ns = <<>> THEN NaN ELSE Float(Sum(ns), Len(ns))
SeriesMin(fs) ==
    LET ns == DropNaN(fs) IN IF ns = <<>> THEN NaN ELSE Float(Min(Range(ns)), 1)
SeriesMax(fs) ==
    LET ns == DropNaN(fs) IN IF ns = <<>> THEN NaN ELSE Float(Max(Range(ns)), 1)

\* str.lower() of a token
Lower(tok) ==
    CASE tok \in {"Nemokama", "NEMOKAMA", "nemokama"} -> "nemokama"
      [] tok = "E" -> "e"
      [] OTHER -> tok

LowerText(s) == [i \in 1..Len(s) |-> Lower(s[i])]

\* line 288: .str.contains('nemokama', case=False, na=False)
IsFree(rec) == Contains(LowerText(rec.price), <<"nemokama">>)

\* lines 283-290
Summary(df) ==
    LET prices == [i \in 1..Len(df) |-> price_numeric(df[i])] IN
    [total_camps      |-> Len(df),
     avg_price        |-> SeriesMean(prices),
     min_price        |-> SeriesMin(prices),
     max_price        |-> SeriesMax(prices),
     free_camps       |-> Cardinality({i \in 1..Len(df) : IsFree(df[i])}),
     organizers_count |-> Cardinality({df[i].organizer : i \in 1..Len(df)})]

\* lines 133-170, analyze_prices: the mean, 0 over no numeric price (the
\* median, deviation, quartiles and outliers are not represented)
analyze_prices(df) ==
    LET ns == DropNaN([i \in 1..Len(df) |-> price_numeric(df[i])]) IN
    IF Len(ns) = 0 THEN [mean |-> Float(0, 1)] ELSE [mean |-> Float(Sum(ns), Len(ns))]

\* all digit runs of all age texts, .str.extractall(r'(\d+)')
RECURSIVE AllAges(_)
AllAges(df) ==
    IF df = <<>> THEN <<>> ELSE DigitRunsFrom(Head(df).age_group, 1) \o AllAges(Tail(df))

\* np.bincount(a).argmax(): the smallest of the most frequent values
MostCommon(ns) ==
    LET count(v) == Cardinality({i \in 1..Len(ns) : ns[i] = v})
        top == {v \in Range(ns) : \A w \in Range(ns) : count(w) <= count(v)}
    IN  Min(top)

\* lines 172-205, analyze_age_groups
analyze_age_groups(df) ==
    LET ages == AllAges(df) IN
    IF Len(ages) = 0
    THEN [mean_age |-> Float(0, 1), min |-> 0, max |-> 0, most_common_age |-> 0]
    ELSE [mean_age |-> Float(Sum(ages), Len(ages)), min |-> Min(Range(ages)),
          max |-> Max(Range(ages)), most_common_age |-> MostCommon(ages)]

\* The output directory holds the files this run can write, by kind; the
\* listings and analysis files carry the run's timestamp in their names.
FileKinds == {"listings", "summary", "price_analysis", "price_outliers", "age_analysis"}
NoFile == <<>>
Stale == <<[stale |-> TRUE]>>

\* lines 269-308, the try block.  A frame built from no record has no column
\* 'Kaina': line 280 raises KeyError after the listings file is written, and
\* the handler of line 307 logs it.
SaveBody ==
    IF camps = <<>>
    THEN /\ files' = [files EXCEPT !["listings"] = <<[rows |-> <<>>]>>]
         /\ log' = log \o << <<"INFO", "Data saved">>, <<"ERROR", "Error saving data">> >>
    ELSE /\ files' = [k \in FileKinds |->
                        CASE k = "listings" -> <<[rows |-> camps]>>
                          [] k = "summary" -> <<Summary(camps)>>
                          [] k = "price_analysis" -> <<analyze_prices(camps)>>
                          [] k = "price_outliers" -> <<[outliers |-> "not represented"]>>
                          [] k = "age_analysis" -> <<analyze_age_groups(camps)>>]
         /\ log' = log \o << <<"INFO", "Data saved">>, <<"INFO", "Summary saved">>,
                              <<"INFO", "Analysis data saved">> >>

\* lines 256-308 without the guard of lines 265-267
save_to_csv_NoGuard ==
    /\ pc = "save_to_csv"
    /\ SaveBody
    /\ pc' = "done"
    /\ UNCHANGED <<camps, raised, scrapeVars, extractVars>>

\* lines 256-308
save_to_csv ==
    /\ pc = "save_to_csv"
    /\ IF camps = <<>>
       THEN /\ log' = Append(log, <<"WARNING", "No camps data to save">>)
            /\ UNCHANGED files
       ELSE SaveBody
    /\ pc' = "done"
    /\ UNCHANGED <<camps, raised, scrapeVars, extractVars>>

\* extract_field, lines 40-58, applied to the card
ExtractField ==
    /\ pc = "extract_field"
    /\ value' = extract_field(card, selector, "field")
    /\ pc' = "extracted"
    /\ UNCHANGED <<card, selector, raised, scrapeVars, saveVars>>

---------------------------------------------------------------------------
(* Specifications *)

NoCard == [h3 |-> <<>>, href |-> <<>>, body |-> <<>>]

IdleScrape ==
    /\ arg = NoArg
    /\ site = [sizes |-> <<1>>, npages |-> 0]
    /\ max_camps = 0
    /\ page = 0
    /\ all_camps = <<>>
    /\ response = <<>>
    /\ cards = <<>>
    /\ idx = 0
    /\ requests = <<>>
    /\ sleeps = 0
    /\ stop = "none"
    /\ ret = <<>>

IdleExtract ==
    /\ card = NoCard
    /\ selector = SELECTORS.price
    /\ value = <<>>

\* main() is entered: nothing is fetched yet, the output directory is empty
\* or holds the files of an earlier run
Init ==
    /\ pc = "scrape_camps"
    /\ arg \in Args
    /\ site \in Sites
    /\ max_camps = 0
    /\ page = 0
    /\ all_camps = <<>>
    /\ response = <<>>
    /\ cards = <<>>
    /\ idx = 0
    /\ requests = <<>>
    /\ sleeps = 0
    /\ stop = "none"
    /\ ret = <<>>
    /\ camps = <<>>
    /\ files \in {[k \in FileKinds |-> NoFile], [k \in FileKinds |-> Stale]}
    /\ log = <<>>
    /\ raised = FALSE
    /\ IdleExtract

Next ==
    \/ Start
    \/ LoopTest
    \/ FetchOk
    \/ FetchFails
    \/ ParseOk
    \/ ParseFails
    \/ ForDone
    \/ BudgetBreak
    \/ CardOk
    \/ CardFails
    \/ NextPage
    \/ Return
    \/ save_to_csv

Spec == Init /\ [][Next]_vars

\* The records handed to save_to_csv
PriceTexts ==
    {Placeholder, <<"Nemokama">>, <<"NEMOKAMA", " ", "renginio", " ", "metu">>,
     <<"5", "0", "E">>, <<"n", "u", "o", " ", "1", "2", "0", " ", "E", " ", "/", "7", "d">>}
SaveRecords ==
    {[title |-> <<"Camp">>, organizer |-> o, age_group |-> a, price |-> pr,
      link |-> Placeholder] :
        o \in {<<"OrgA">>, <<"OrgB">>}, a \in {Placeholder, <<"7", "-", "1", "2">>},
        pr \in PriceTexts}

InitSave ==
    /\ pc = "save_to_csv"
    /\ camps \in UNION {[1..n -> SaveRecords] : n \in 0..MaxRecs}
    /\ files \in {[k \in FileKinds |-> NoFile], [k \in FileKinds |-> Stale],
                  [k \in FileKinds |-> IF k = "summary" THEN Stale ELSE NoFile]}
    /\ log = <<>>
    /\ raised = FALSE
    /\ IdleScrape
    /\ IdleExtract

NextSave == save_to_csv

SpecSave == InitSave /\ [][NextSave]_vars

\* The cards handed to extract_field: up to MaxNodes nodes, shared out between
\* two parent elements
ExtractNodes ==
    {[tag |-> "h6", text |-> <<"Kaina">>],
     [tag |-> "h6", text |-> <<"Organizatorius">>],
     [tag |-> "p", text |-> <<" ", "5", "0", " ", "E", "\n">>],
     [tag |-> "p", text |-> <<" ">>],
     [tag |-> "div", text |-> <<"x">>]}

ExtractCards ==
    {[h3 |-> <<>>, href |-> <<>>,
      body |-> <<SubSeq(ns, 1, k), SubSeq(ns, k + 1, Len(ns))>>] :
        <<ns, k>> \in {<<ns, k>> \in (UNION {[1..n -> ExtractNodes] : n \in 0..MaxNodes})
                                      \X (0..MaxNodes) : k <= Len(ns)}}

InitExtract ==
    /\ pc = "extract_field"
    /\ card \in ExtractCards
    /\ selector \in {SELECTORS.price, SELECTORS.organizer}
    /\ value = <<>>
    /\ camps = <<>>
    /\ files = [k \in FileKinds |-> NoFile]
    /\ log = <<>>
    /\ raised = FALSE
    /\ IdleScrape

NextExtract == ExtractField

SpecExtract == InitExtract /\ [][NextExtract]_vars

---------------------------------------------------------------------------
(* Claims *)

Terminated == pc \in {"save_to_csv", "done"}
ErrorStops == {"fetch_error", "parse_error", "card_error"}

\* the maximum the caller configures: the argument, config.MAX_CAMPS without one
ConfiguredMax == IF arg = NoArg THEN MAX_CAMPS ELSE arg[1]

IsPrefix(s, t) == Len(s) <= Len(t) /\ SubSeq(t, 1, Len(s)) = s

\* the records of the cards of pages 1..k, page by page, in document order
RECURSIVE RecordsOfPages(_)
RecordsOfPages(k) ==
    IF k = 0 THEN <<>>
    ELSE RecordsOfPages(k - 1)
         \o [i \in 1..PageSize(site, k) |-> camp_data(CardOf(k, i))]

\* C1: in every state the accumulator holds at most the configured maximum of
\* records (the max_camps argument, or config.MAX_CAMPS without an argument).
C1_AtMostConfiguredMax == Len(all_camps) <= ConfiguredMax

\* A measure of the work left: the records still missing from the budget,
\* then the position within the iteration that fetches the next of them.
Variant ==
    LET W == MaxCards + 7
        missing == IF Len(all_camps) < max_camps THEN max_camps - Len(all_camps) ELSE 0
        within == CASE pc = "cards" /\ idx > 1 -> 5 + (IF idx <= Len(cards)
                                                       THEN Len(cards) - idx + 1 ELSE 0)
                    [] pc = "next_page" -> 4
                    [] pc = "while" -> 3
                    [] pc = "fetch" -> 2
                    [] pc = "parse" -> 1
                    [] OTHER -> 0
    IN  CASE pc = "done" -> 0
          [] pc = "save_to_csv" -> 1
          [] pc = "return" -> 2
          [] pc = "scrape_camps" -> 3 + (MAX_CAMPS + MaxArg + 1) * W
          [] OTHER -> 3 + missing * W + within

\* C2: scrape_camps terminates (every step lowers a measure that is a natural
\* number, 0 only when main is done), and with non-empty pages only and no
\* failure it returns exactly as many records as the maximum in force for the
\* run (N), never more and never fewer.
C2_ExactlyN ==
    /\ [][Variant' < Variant]_vars
    /\ [](Variant >= 0 /\ (Variant = 0 <=> pc = "done"))
    /\ [](( /\ Terminated
            /\ stop \notin ErrorStops
            /\ \A i \in 1..Len(requests) : PageSize(site, requests[i]) >= 1 )
          => Len(ret) = max_camps)

C2_Witness ==
    /\ pc = "done"
    /\ stop = "max"
    /\ Len(ret) = 2
    /\ Len(requests) = 2
    /\ \A i \in 1..Len(requests) : PageSize(site, requests[i]) >= 1

\* C3: when a fetched page yields no card, that iteration adds no record and
\* ends the loop; no page is requested afterwards and the accumulator as it
\* stands is returned.
C3_EmptyPageStops ==
    [][ /\ (pc = "parse" /\ response = << <<>> >> /\ stop' # "parse_error")
            => (pc' = "return" /\ stop' = "empty" /\ all_camps' = all_camps)
        /\ (stop = "empty")
            => (requests' = requests /\ all_camps' = all_camps /\ stop' = stop
                /\ pc' \in {"return", "save_to_csv", "done"})
        /\ (stop = "empty" /\ pc = "return") => ret' = all_camps ]_vars

C3_Witness ==
    /\ pc = "done"
    /\ stop = "empty"
    /\ Len(ret) = 3
    /\ Len(requests) = 3
    /\ page = 3

\* C4: when the fetch of a page fails or parsing it raises, the loop ends at
\* once: no page is requested afterwards, no exception leaves scrape_camps,
\* and the accumulator as it stood is returned and handed to save_to_csv.
C4_PageFailureStops ==
    [][ /\ ((pc = "fetch" /\ stop' = "fetch_error") \/ (pc = "parse" /\ stop' = "parse_error"))
            => (pc' = "return" /\ all_camps' = all_camps /\ raised' = FALSE)
        /\ (stop \in {"fetch_error", "parse_error"})
            => (requests' = requests /\ all_camps' = all_camps /\ raised' = FALSE
                /\ stop' = stop /\ pc' \in {"return", "save_to_csv", "done"})
        /\ (stop \in {"fetch_error", "parse_error"} /\ pc = "return")
            => (ret' = all_camps /\ camps' = all_camps /\ pc' = "save_to_csv") ]_vars

C4_Witness ==
    /\ pc = "done"
    /\ stop = "parse_error"
    /\ Len(ret) = 2
    /\ camps = ret
    /\ requests = <<1, 2>>
    /\ ~raised

\* C5 as stated: a card whose processing raises is skipped and the loop goes
\* on with the next card of the page.
C5_CardSkipped ==
    [][ (pc = "cards" /\ stop' = "card_error") => (pc' = "cards" /\ idx' = idx + 1) ]_vars

\* C5 as amended: a card whose processing raises ends the pagination loop
\* through the page's handler: no further card or page is processed, nothing
\* is raised out of scrape_camps, and the records collected before that card
\* are returned.
C5_CardFailureStops ==
    [][ /\ (pc = "cards" /\ stop' = "card_error")
            => (pc' = "return" /\ all_camps' = all_camps /\ raised' = FALSE)
        /\ (stop = "card_error")
            => (requests' = requests /\ all_camps' = all_camps /\ idx' = idx
                /\ raised' = FALSE /\ pc' \in {"return", "save_to_csv", "done"})
        /\ (stop = "card_error" /\ pc = "return") => ret' = all_camps ]_vars

C5_Witness ==
    /\ pc = "done"
    /\ stop = "card_error"
    /\ Len(cards) = 3
    /\ idx = 2
    /\ Len(ret) = 1
    /\ max_camps = MAX_CAMPS

\* C6: save_to_csv with an empty list writes no file and leaves the existing
\* files as they are, logs a warning and nothing else, and returns normally.
C6_EmptySavesNothing ==
    [][ (pc = "save_to_csv" /\ camps = <<>>)
        => /\ files' = files
           /\ Len(log') = Len(log) + 1
           /\ \A i \in (Len(log) + 1)..Len(log') : log'[i][1] = "WARNING"
           /\ raised' = FALSE
           /\ pc' = "done" ]_vars

C6_Witness ==
    /\ pc = "done"
    /\ camps = <<>>
    /\ files["summary"] = Stale
    /\ files["listings"] = NoFile
    /\ Len(log) = 1

HasDigit(s) == \E i \in 1..Len(s) : s[i] \in {"0", "1", "2", "3", "4", "5", "6", "7", "8", "9"}

\* C7: for a non-empty list in which no price text holds a digit, the mean,
\* minimum and maximum price of the summary are 0, not undefined values.
C7_ZeroDefaults ==
    ( /\ pc = "done"
      /\ camps # <<>>
      /\ \A i \in 1..Len(camps) : ~HasDigit(camps[i].price) )
    => /\ files["summary"] # NoFile
       /\ \A f \in {files["summary"][1].avg_price, files["summary"][1].min_price,
                      files["summary"][1].max_price} : ~f.nan /\ f.num = 0

\* the text s without its leading and trailing white space
Trimmed(s) ==
    LET keep == {i \in 1..Len(s) : s[i] \notin {" ", "\t", "\n"}} IN
    IF keep = {} THEN <<>>
    ELSE SubSeq(s, CHOOSE a \in keep : \A b \in keep : a <= b,
                   CHOOSE a \in keep : \A b \in keep : a >= b)

\* C8: extract_field returns the trimmed text of the next sibling of the first
\* matching label exactly when there is a label, it has a next sibling and the
\* sibling is a paragraph; in every other case it returns the placeholder.
C8_ExtractField ==
    pc = "extracted" =>
        LET body == card.body
            hits == {pos \in {<<c, j>> : c \in 1..Len(body), j \in 1..MaxNodes + 1} :
                        /\ pos[2] <= Len(body[pos[1]])
                        /\ body[pos[1]][pos[2]].tag = selector.tag
                        /\ Contains(body[pos[1]][pos[2]].text, selector.label)}
            before(a, b) == a[1] < b[1] \/ (a[1] = b[1] /\ a[2] <= b[2])
        IN  IF hits = {} THEN value = Placeholder
            ELSE LET first == CHOOSE a \in hits : \A b \in hits : before(a, b)
                     sibs == body[first[1]]
                 IN  IF first[2] < Len(sibs) /\ sibs[first[2] + 1].tag = "p"
                     THEN value = Trimmed(sibs[first[2] + 1].text)
                     ELSE value = Placeholder

C8_Witness ==
    /\ pc = "extracted"
    /\ selector = SELECTORS.price
    /\ Len(XPath(card, selector)) = 2
    /\ Len(card.body[1]) = 3
    /\ value = <<"5", "0", " ", "E">>

\* C9: when the loop stops because the maximum is reached, no delay was waited
\* and the page counter was not incremented after the last page: delays and
\* increments happen only before another page is fetched.
C9_NoDelayBeforeDone ==
    (pc \in {"return", "save_to_csv", "done"} /\ stop = "max")
    => (page = Len(requests) /\ sleeps = Len(requests) - 1)

\* C10: the accumulator only grows at its end, and the returned list is the
\* records of the cards of page 1, page 2, ... up to the last page processed,
\* in document order, cut off at the maximum (or, after a card whose
\* processing raised, before that card).
C10_AppendOnlyInOrder ==
    /\ [][IsPrefix(all_camps, all_camps')]_vars
    /\ [](Terminated =>
            LET processed == IF stop \in {"fetch_error", "parse_error"}
                             THEN Len(requests) - 1 ELSE Len(requests)
                full == RecordsOfPages(processed)
            IN  IF stop = "card_error"
                THEN /\ IsPrefix(ret, full)
                     /\ Len(ret) = Len(RecordsOfPages(processed - 1)) + idx - 1
                ELSE /\ IsPrefix(ret, full)
                     /\ Len(ret) = IF Len(full) < max_camps THEN Len(full) ELSE max_camps)

C10_Witness ==
    /\ pc = "done"
    /\ stop = "max"
    /\ max_camps = 3
    /\ Len(requests) = 2
    /\ Len(RecordsOfPages(2)) = 4
    /\ ret = SubSeq(RecordsOfPages(2), 1, 3)

====
